---- MODULE Spec2Model ----
(***************************************************************************)
(* Model of bidcat.Auction (src/bidcat/__init__.py) together with the part *)
(* of the bank it calls (src/bidcat/banksys.py).                           *)
(*                                                                         *)
(* _itembids is a dict item -> OrderedDict(user -> amount).  It is a       *)
(* function whose DOMAIN is the set of items present; every OrderedDict is *)
(* the sequence of its [user, amount] entries in iteration order.  The     *)
(* iteration order of the outer dict is not kept: the only place that      *)
(* iterates it in an order-sensitive way is sorted() in                    *)
(* get_all_bids_ordered, whose keys are pairwise different.                *)
(***************************************************************************)
EXTENDS Integers, Sequences, FiniteSets, TLC

VARIABLES itembids, changes_tracker, checkers, starting_amount, result,
          fresh, pending

vars == <<itembids, changes_tracker, checkers, starting_amount, result, fresh, pending>>

----------------------------------------------------------------------------
(* Bounds and input domains *)

Users == {"alice", "bob"}
Items == {"pepsiman", "katamari"}

\* largest amount passed to place_bid / replace_bid, and cap of a pledge
MaxAmount == 2
\* balance DummyBank gives every user: its _starting_amount, scaled down
StartingAmount == 3
\* DummyBank._starting_amount as the class sets it
DefaultStartingAmount == 50000
\* largest amount of one pledge in the scripted runs
MaxPledge == 24
\* largest of the small amounts pledged in the three-bidder script
MaxShare == 3

Amounts == 0..MaxAmount
Deltas == (-1)..MaxAmount

----------------------------------------------------------------------------
(* Generic helpers for Python lists, dicts and OrderedDicts *)

RECURSIVE SumSeq(_)
SumSeq(s) == IF s = <<>> THEN 0 ELSE Head(s) + SumSeq(Tail(s))

Range(s) == {s[i] : i \in DOMAIN s}

\* list.index(x): position of the first occurrence (0 stands for ValueError)
Index(s, x) ==
    IF x \in Range(s) THEN CHOOSE i \in DOMAIN s : s[i] = x /\ \A j \in 1..(i-1) : s[j] # x
    ELSE 0

\* list.remove(x) under suppress(ValueError): drops the first occurrence only
ListRemove(s, x) ==
    LET i == Index(s, x)
    IN IF i = 0 THEN s ELSE SubSeq(s, 1, i-1) \o SubSeq(s, i+1, Len(s))

OdKeys(od) == {od[i].user : i \in DOMAIN od}

OdPos(od, user) == CHOOSE i \in DOMAIN od : od[i].user = user

\* od[user]
OdGet(od, user) == od[OdPos(od, user)].amount

\* od.values()
OdValues(od) == [i \in DOMAIN od |-> od[i].amount]

\* od[user] = amount: in place for an existing key, appended for a new one
OdSet(od, user, amount) ==
    IF user \in OdKeys(od)
    THEN [od EXCEPT ![OdPos(od, user)].amount = amount]
    ELSE Append(od, [user |-> user, amount |-> amount])

\* del od[user]
OdDel(od, user) == SelectSeq(od, LAMBDA e : e.user # user)

\* od.move_to_end(user)
OdMoveToEnd(od, user) == Append(OdDel(od, user), od[OdPos(od, user)])

\* dict without a key
DictDel(d, k) == [x \in (DOMAIN d) \ {k} |-> d[x]]

\* d[k] = v
DictSet(d, k, v) == [x \in (DOMAIN d) \cup {k} |-> IF x = k THEN v ELSE d[x]]

EmptyDict == [x \in {} |-> <<>>]

----------------------------------------------------------------------------
(* Python float arithmetic: ceil(total_charge * (amount / total_bid)).     *)
(* amount / total_bid is a true division rounded to the nearest binary64   *)
(* (53-bit significand, ties to even); int * float converts the int        *)
(* exactly and rounds the product the same way; math.ceil is exact.        *)
(* A float is [m, sh]: the value m * 2^(-52-sh), with m held as five       *)
(* base-2^13 digits, most significant first (the first digit unbounded).   *)

DigitBase == 8192

RECURSIVE Pow2(_)
Pow2(n) == IF n = 0 THEN 1 ELSE 2 * Pow2(n-1)

RECURSIVE BitLen(_)
BitLen(n) == IF n = 0 THEN 0 ELSE 1 + BitLen(n \div 2)

\* add inc to digit i, carrying into the more significant digits
RECURSIVE AddAt(_, _, _)
AddAt(digs, i, inc) ==
    IF inc = 0 THEN digs
    ELSE IF i = 1 THEN [digs EXCEPT ![1] = @ + inc]
    ELSE LET s == digs[i] + inc
         IN AddAt([digs EXCEPT ![i] = s % DigitBase], i-1, s \div DigitBase)

\* multiply digits i..1 by c, carrying
RECURSIVE MulAt(_, _, _, _)
MulAt(digs, i, c, carry) ==
    IF i = 1 THEN [digs EXCEPT ![1] = @ * c + carry]
    ELSE LET p == digs[i] * c + carry
         IN MulAt([digs EXCEPT ![i] = p % DigitBase], i-1, c, p \div DigitBase)

\* least s with a * 2^s >= t
RECURSIVE NormShift(_, _)
NormShift(a, t) == IF a >= t THEN 0 ELSE 1 + NormShift(2*a, t)

\* n further quotient digits of r / t
RECURSIVE DivDigits(_, _, _)
DivDigits(r, t, n) ==
    IF n = 0 THEN <<>>
    ELSE <<(r * DigitBase) \div t>> \o DivDigits((r * DigitBase) % t, t, n-1)

\* the remainder left after those n digits
RECURSIVE DivRem(_, _, _)
DivRem(r, t, n) == IF n = 0 THEN r ELSE DivRem((r * DigitBase) % t, t, n-1)

\* a / t for ints 0 < a <= t
TrueDiv(a, t) ==
    LET sh == NormShift(a, t)
        n0 == a * Pow2(sh)
        m  == <<n0 \div t>> \o DivDigits(n0 % t, t, 4)
        r  == DivRem(n0 % t, t, 4)
        up == 2*r > t \/ (2*r = t /\ m[5] % 2 = 1)
    IN [m |-> IF up THEN AddAt(m, 5, 1) ELSE m, sh |-> sh]

\* c * x for an int c >= 0 and a float x
FloatMul(c, x) ==
    LET p    == MulAt(x.m, 5, c, 0)
        k    == IF p[1] = 0 THEN 0 ELSE BitLen(p[1]) - 1
        low  == p[5] % Pow2(k)
        kept == p[5] \div Pow2(k)
        up   == k > 0 /\ (2*low > Pow2(k) \/ (2*low = Pow2(k) /\ kept % 2 = 1))
        p0   == [p EXCEPT ![5] = @ - low]
    IN [m |-> IF up THEN AddAt(p0, 5, Pow2(k)) ELSE p0, sh |-> x.sh]

\* math.ceil(x)
Ceil(x) ==
    LET whole == x.m[1] \div Pow2(x.sh)
        frac  == x.m[1] % Pow2(x.sh) # 0 \/ \E i \in 2..5 : x.m[i] # 0
    IN IF frac THEN whole + 1 ELSE whole

----------------------------------------------------------------------------
(* The bank: BaseBank / DummyBank *)

\* name under which Auction.get_reserved_money sits in the bank's set
AuctionChecker == "auction.get_reserved_money"

\* Auction.get_bids_for_user: dict(item -> amount) of that user's bids
GetBidsForUser(bids, user) ==
    [item \in {i \in DOMAIN bids : user \in OdKeys(bids[i])} |-> OdGet(bids[item], user)]

RECURSIVE SumDict(_)
SumDict(d) ==
    IF DOMAIN d = {} THEN 0
    ELSE LET k == CHOOSE x \in DOMAIN d : TRUE
         IN d[k] + SumDict([x \in (DOMAIN d) \ {k} |-> d[x]])

GetReservedMoney_CountsBids(bids, user) == Cardinality(DOMAIN GetBidsForUser(bids, user))

\* Auction.get_reserved_money
GetReservedMoney(bids, user) == SumDict(GetBidsForUser(bids, user))

\* BaseBank.get_reserved_money: the sum over the registered checker functions
BankGetReservedMoney(bids, bank, user) ==
    IF AuctionChecker \in bank.checkers THEN GetReservedMoney(bids, user) ELSE 0

\* DummyBank._get_stored_money_value through BaseBank.get_total_money: no
\* operation of the auction changes a stored balance
GetTotalMoney(bank, user) == bank.starting_amount

\* get_available_money that forgets the reserved money
GetAvailableMoney_IgnoresReserved(bids, bank, user) == GetTotalMoney(bank, user)

\* BaseBank.get_available_money
GetAvailableMoney(bids, bank, user) ==
    GetTotalMoney(bank, user) - BankGetReservedMoney(bids, bank, user)

----------------------------------------------------------------------------
(* Winner resolution and cost allocation *)

ItemTotal(bids, item) == SumSeq(OdValues(bids[item]))

KeyLess_LatestFirst(kx, ky) ==
    \/ kx[1] < ky[1]
    \/ kx[1] = ky[1] /\ kx[2] > ky[2]

\* Python's comparison of two sort keys (-total, tracker index) as tuples
KeyLess(kx, ky) ==
    \/ kx[1] < ky[1]
    \/ kx[1] = ky[1] /\ kx[2] < ky[2]

\* the sort key by_amount_and_last_update of every item with pledges
SortKeys(bids, tracker) ==
    [item \in DOMAIN bids |-> <<-ItemTotal(bids, item), Index(tracker, item)>>]

RECURSIVE SortByKey(_, _)
SortByKey(key, S) ==
    IF S = {} THEN <<>>
    ELSE LET first == CHOOSE x \in S : \A y \in S : ~KeyLess(key[y], key[x])
         IN <<first>> \o SortByKey(key, S \ {first})

\* Auction.get_all_bids_ordered, as the sequence of the items (first = winner)
GetAllBidsOrdered(bids, tracker) == SortByKey(SortKeys(bids, tracker), DOMAIN bids)

\* sorted(winning_bids.items(), key=itemgetter(1), reverse=True): stable
RECURSIVE SortedByAmountDesc(_)
SortedByAmountDesc(od) ==
    IF od = <<>> THEN <<>>
    ELSE LET i == CHOOSE j \in DOMAIN od :
                    /\ \A k \in DOMAIN od : od[k].amount <= od[j].amount
                    /\ \A k \in 1..(j-1) : od[k].amount < od[j].amount
         IN <<od[i]>> \o SortedByAmountDesc(SubSeq(od, 1, i-1) \o SubSeq(od, i+1, Len(od)))

\* the largest total_bid whose shares are tabulated; larger totals are
\* computed share by share
MaxTotal == Cardinality(Users) * (IF MaxAmount > MaxPledge THEN MaxAmount ELSE MaxPledge)

\* ceil(total_charge * (amount / total_bid)) in float arithmetic, tabulated
\* for every total_bid, amount and total_charge up to MaxTotal
CeilShare ==
    [t \in 1..MaxTotal |->
        [a \in 1..t |->
            [c \in 0..t |-> Ceil(FloatMul(c, TrueDiv(a, t)))] @@ <<>>] @@ <<>>] @@ <<>>

\* step 1 with the whole pledge as the share, total_charge left out
CeiledShares_IgnoresCharge(sorted, total_bid, total_charge) ==
    [i \in DOMAIN sorted |-> [user |-> sorted[i].user, owed |-> sorted[i].amount]]

\* step 1 of the allotment: ceil(total_charge * (amount / total_bid)) each
CeiledShares(sorted, total_bid, total_charge) ==
    [i \in DOMAIN sorted |->
        [user |-> sorted[i].user,
         owed |-> IF total_bid <= MaxTotal
                  THEN CeilShare[total_bid][sorted[i].amount][total_charge]
                  ELSE Ceil(FloatMul(total_charge, TrueDiv(sorted[i].amount, total_bid)))]]

Discount_OneShort(owed, overpaid, discount_latter) ==
    [i \in DOMAIN owed |->
        LET visit == IF discount_latter THEN Len(owed) + 1 - i ELSE i
        IN IF visit < overpaid THEN [owed[i] EXCEPT !.owed = @ - 1] ELSE owed[i]]

\* step 2 without next(user_iter): every unit comes off the first user visited
Discount_FirstTakesAll(owed, overpaid, discount_latter) ==
    [i \in DOMAIN owed |->
        LET visit == IF discount_latter THEN Len(owed) + 1 - i ELSE i
        IN IF visit = 1 THEN [owed[i] EXCEPT !.owed = @ - overpaid] ELSE owed[i]]

\* step 2 that never reverses the iterator
Discount_IgnoresPolicy(owed, overpaid, discount_latter) ==
    [i \in DOMAIN owed |->
        IF i <= overpaid THEN [owed[i] EXCEPT !.owed = @ - 1] ELSE owed[i]]

\* step 2: one unit off for each of the first `overpaid` users of the iterator
Discount(owed, overpaid, discount_latter) ==
    [i \in DOMAIN owed |->
        LET visit == IF discount_latter THEN Len(owed) + 1 - i ELSE i
        IN IF visit <= overpaid THEN [owed[i] EXCEPT !.owed = @ - 1] ELSE owed[i]]

\* overpaid = max(0, total_bid-second_bid-1); total_charge = total_bid - overpaid
TotalCharge_NoIncrement(total_bid, second_bid) ==
    total_bid - (IF total_bid - second_bid > 0 THEN total_bid - second_bid ELSE 0)

TotalCharge_FullWhenUncontested(total_bid, second_bid) ==
    IF second_bid = 0 THEN total_bid
    ELSE total_bid - (IF total_bid - second_bid - 1 > 0 THEN total_bid - second_bid - 1 ELSE 0)

TotalCharge(total_bid, second_bid) ==
    LET overpaid == IF total_bid - second_bid - 1 > 0
                    THEN total_bid - second_bid - 1 ELSE 0
    IN total_bid - overpaid

None == [item |-> "None"]

\* get_winner that wants a runner-up: 'if not rest' in place of 'if not bids'
GetWinner_NeedsRunnerUp(bids, tracker, discount_latter) ==
    LET ordered == GetAllBidsOrdered(bids, tracker)
    IN IF Len(ordered) < 2 THEN None
       ELSE LET winning_bids == bids[ordered[1]]
                total_bid    == SumSeq(OdValues(winning_bids))
                total_charge == TotalCharge(total_bid, ItemTotal(bids, ordered[2]))
                ceiled       == CeiledShares(SortedByAmountDesc(winning_bids),
                                             total_bid, total_charge)
                overpaid     == SumSeq([i \in DOMAIN ceiled |-> ceiled[i].owed]) - total_charge
            IN [item         |-> ordered[1],
                total_bid    |-> total_bid,
                total_charge |-> total_charge,
                money_owed   |-> Discount(ceiled, overpaid, discount_latter)]

\* Auction.get_winner
GetWinner(bids, tracker, discount_latter) ==
    LET ordered == GetAllBidsOrdered(bids, tracker)
    IN IF ordered = <<>> THEN None
       ELSE LET winning_item == ordered[1]
                winning_bids == bids[winning_item]
                second_bid   == IF Len(ordered) > 1 THEN ItemTotal(bids, ordered[2]) ELSE 0
                total_bid    == SumSeq(OdValues(winning_bids))
                total_charge == TotalCharge(total_bid, second_bid)
                ceiled       == CeiledShares(SortedByAmountDesc(winning_bids),
                                             total_bid, total_charge)
                overpaid     == SumSeq([i \in DOMAIN ceiled |-> ceiled[i].owed]) - total_charge
            IN [item         |-> winning_item,
                total_bid    |-> total_bid,
                total_charge |-> total_charge,
                money_owed   |-> Discount(ceiled, overpaid, discount_latter)]

----------------------------------------------------------------------------
(* Ledger mutations *)

UpdateLastChange_KeepsPlace(tracker, item) ==
    IF item \in Range(tracker) THEN tracker ELSE Append(tracker, item)

\* _update_last_change without the remove: the item's old entry stays
UpdateLastChange_AppendsOnly(tracker, item) == Append(tracker, item)

\* Auction._update_last_change
UpdateLastChange(tracker, item) == Append(ListRemove(tracker, item), item)

Outcome(out, bids, tracker) == [out |-> out, itembids |-> bids, tracker |-> tracker]

NeededMoney_WholeAmount(amount, previous_bid, replace) == amount

\* needed_money: the amount, less the previous bid when replacing
NeededMoney(amount, previous_bid, replace) ==
    IF replace THEN amount - previous_bid ELSE amount

VisiblyLowers_AtHeadroom(winner, item, previous_bid, amount) ==
    \/ winner.item # item
    \/ previous_bid - amount >= winner.total_bid - winner.total_charge

VisiblyLowers_OnePastHeadroom(winner, item, previous_bid, amount) ==
    \/ winner.item # item
    \/ previous_bid - amount > winner.total_bid - winner.total_charge + 1

VisiblyLowers_WinnerOnly(winner, item, previous_bid, amount) ==
    /\ winner.item = item
    /\ previous_bid - amount > winner.total_bid - winner.total_charge

\* the check of a lowering replacement against the winner: TRUE when
\* VisiblyLoweredError is raised
VisiblyLowers(winner, item, previous_bid, amount) ==
    \/ winner.item # item
    \/ LET headroom == winner.total_bid - winner.total_charge
           decrease == previous_bid - amount
       IN decrease > headroom

HandleBidCheck_PlaceOverwrites(bids, tracker, bank, user, item, amount, replace, allow_visible_lowering) ==
    LET already_bid  == item \in DOMAIN bids /\ user \in OdKeys(bids[item])
        previous_bid == IF already_bid THEN OdGet(bids[item], user) ELSE 0
    IN IF amount < 1 THEN "ValueError"
       ELSE IF replace /\ ~already_bid THEN "NoExistingBidError"
       ELSE IF replace /\ previous_bid = amount THEN "no change"
       ELSE IF NeededMoney(amount, previous_bid, replace) > GetAvailableMoney(bids, bank, user)
            THEN "InsufficientMoneyError"
       ELSE IF /\ replace /\ amount < previous_bid /\ ~allow_visible_lowering
               /\ VisiblyLowers(GetWinner(bids, tracker, FALSE), item, previous_bid, amount)
            THEN "VisiblyLoweredError"
       ELSE "ok"

HandleBidCheck_ReplaceCreates(bids, tracker, bank, user, item, amount, replace, allow_visible_lowering) ==
    LET already_bid  == item \in DOMAIN bids /\ user \in OdKeys(bids[item])
        previous_bid == IF already_bid THEN OdGet(bids[item], user) ELSE 0
    IN IF amount < 1 THEN "ValueError"
       ELSE IF ~replace /\ already_bid THEN "AlreadyBidError"
       ELSE IF replace /\ previous_bid = amount THEN "no change"
       ELSE IF NeededMoney(amount, previous_bid, replace) > GetAvailableMoney(bids, bank, user)
            THEN "InsufficientMoneyError"
       ELSE IF /\ replace /\ amount < previous_bid /\ ~allow_visible_lowering
               /\ VisiblyLowers(GetWinner(bids, tracker, FALSE), item, previous_bid, amount)
            THEN "VisiblyLoweredError"
       ELSE "ok"

HandleBidCheck_NoEarlyReturn(bids, tracker, bank, user, item, amount, replace, allow_visible_lowering) ==
    LET already_bid  == item \in DOMAIN bids /\ user \in OdKeys(bids[item])
        previous_bid == IF already_bid THEN OdGet(bids[item], user) ELSE 0
    IN IF amount < 1 THEN "ValueError"
       ELSE IF ~replace /\ already_bid THEN "AlreadyBidError"
       ELSE IF replace /\ ~already_bid THEN "NoExistingBidError"
       ELSE IF NeededMoney(amount, previous_bid, replace) > GetAvailableMoney(bids, bank, user)
            THEN "InsufficientMoneyError"
       ELSE IF /\ replace /\ amount < previous_bid /\ ~allow_visible_lowering
               /\ VisiblyLowers(GetWinner(bids, tracker, FALSE), item, previous_bid, amount)
            THEN "VisiblyLoweredError"
       ELSE "ok"

HandleBidCheck_AllowsZero(bids, tracker, bank, user, item, amount, replace, allow_visible_lowering) ==
    LET already_bid  == item \in DOMAIN bids /\ user \in OdKeys(bids[item])
        previous_bid == IF already_bid THEN OdGet(bids[item], user) ELSE 0
    IN IF amount < 0 THEN "ValueError"
       ELSE IF ~replace /\ already_bid THEN "AlreadyBidError"
       ELSE IF replace /\ ~already_bid THEN "NoExistingBidError"
       ELSE IF replace /\ previous_bid = amount THEN "no change"
       ELSE IF NeededMoney(amount, previous_bid, replace) > GetAvailableMoney(bids, bank, user)
            THEN "InsufficientMoneyError"
       ELSE IF /\ replace /\ amount < previous_bid /\ ~allow_visible_lowering
               /\ VisiblyLowers(GetWinner(bids, tracker, FALSE), item, previous_bid, amount)
            THEN "VisiblyLoweredError"
       ELSE "ok"

\* the checks of Auction._handle_bid in their order: "ok", "no change"
\* (the early return) or the exception raised
HandleBidCheck(bids, tracker, bank, user, item, amount, replace, allow_visible_lowering) ==
    LET already_bid  == item \in DOMAIN bids /\ user \in OdKeys(bids[item])
        previous_bid == IF already_bid THEN OdGet(bids[item], user) ELSE 0
    IN IF amount < 1 THEN "ValueError"
       ELSE IF ~replace /\ already_bid THEN "AlreadyBidError"
       ELSE IF replace /\ ~already_bid THEN "NoExistingBidError"
       ELSE IF replace /\ previous_bid = amount THEN "no change"
       ELSE IF NeededMoney(amount, previous_bid, replace) > GetAvailableMoney(bids, bank, user)
            THEN "InsufficientMoneyError"
       ELSE IF /\ replace /\ amount < previous_bid /\ ~allow_visible_lowering
               /\ VisiblyLowers(GetWinner(bids, tracker, FALSE), item, previous_bid, amount)
            THEN "VisiblyLoweredError"
       ELSE "ok"

HandleBid_TracksBeforeChecks(bids, tracker, bank, user, item, amount, replace, allow_visible_lowering) ==
    LET out == HandleBidCheck(bids, tracker, bank, user, item, amount, replace,
                              allow_visible_lowering)
        od  == IF item \in DOMAIN bids THEN bids[item] ELSE <<>>
    IN IF out = "ok"
       THEN Outcome("ok",
                    DictSet(bids, item, OdMoveToEnd(OdSet(od, user, amount), user)),
                    UpdateLastChange(tracker, item))
       ELSE IF out = "VisiblyLoweredError"
       THEN Outcome(out, bids, UpdateLastChange(tracker, item))
       ELSE Outcome(out, bids, tracker)

\* _handle_bid without the final move_to_end(user)
HandleBid_KeepsPosition(bids, tracker, bank, user, item, amount, replace, allow_visible_lowering) ==
    LET out == HandleBidCheck(bids, tracker, bank, user, item, amount, replace,
                              allow_visible_lowering)
        od  == IF item \in DOMAIN bids THEN bids[item] ELSE <<>>
    IN IF out = "ok"
       THEN Outcome("ok",
                    DictSet(bids, item, OdSet(od, user, amount)),
                    UpdateLastChange(tracker, item))
       ELSE Outcome(out, bids, tracker)

\* Auction._handle_bid: the exception raised, "no change" for the early
\* return or "ok", and the ledger the call leaves behind
HandleBid(bids, tracker, bank, user, item, amount, replace, allow_visible_lowering) ==
    LET out == HandleBidCheck(bids, tracker, bank, user, item, amount, replace,
                              allow_visible_lowering)
        od  == IF item \in DOMAIN bids THEN bids[item] ELSE <<>>
    IN IF out = "ok"
       THEN Outcome("ok",
                    DictSet(bids, item, OdMoveToEnd(OdSet(od, user, amount), user)),
                    UpdateLastChange(tracker, item))
       ELSE Outcome(out, bids, tracker)

\* Auction.place_bid
PlaceBidOutcome(bids, tracker, bank, user, item, amount) ==
    HandleBid(bids, tracker, bank, user, item, amount, FALSE, TRUE)

\* Auction.replace_bid
ReplaceBidOutcome(bids, tracker, bank, user, item, amount, allow_visible_lowering) ==
    HandleBid(bids, tracker, bank, user, item, amount, TRUE, allow_visible_lowering)

DefaultAllowVisibleLowering_Guarded == FALSE

\* the default of replace_bid's allow_visible_lowering parameter
DefaultAllowVisibleLowering == TRUE

IncreaseBidOutcome_IgnoresPrevious(bids, tracker, bank, user, item, amount) ==
    ReplaceBidOutcome(bids, tracker, bank, user, item, amount, DefaultAllowVisibleLowering)

\* Auction.increase_bid: calls replace_bid without the option
IncreaseBidOutcome(bids, tracker, bank, user, item, amount) ==
    LET previous_bid == IF item \in DOMAIN bids /\ user \in OdKeys(bids[item])
                        THEN OdGet(bids[item], user) ELSE 0
    IN ReplaceBidOutcome(bids, tracker, bank, user, item, amount + previous_bid,
                         DefaultAllowVisibleLowering)

\* no second Auction object has been constructed
NoAuction == [constructed |-> FALSE, itembids |-> EmptyDict, tracker |-> <<>>]

\* no call is between its checks and its write
NoCall == [active |-> FALSE, written |-> FALSE, raced |-> FALSE,
           user |-> "", item |-> "", amount |-> 0, previous_bid |-> 0, before |-> None]

\* the bank object the auction holds
Bank == [checkers |-> checkers, starting_amount |-> starting_amount]

\* the ledger a call leaves behind becomes the next state; result is the
\* exception the call raised or, when it returned, what it returned (the
\* name of the call when that is nothing)
Apply(op, o) ==
    /\ itembids' = o.itembids
    /\ changes_tracker' = o.tracker
    /\ result' = IF o.out = "ok" THEN op ELSE o.out
    /\ UNCHANGED <<checkers, starting_amount, fresh, pending>>

PlaceBid(user, item, amount) ==
    Apply("place_bid", PlaceBidOutcome(itembids, changes_tracker, Bank, user, item, amount))

ReplaceBid(user, item, amount, allow_visible_lowering) ==
    Apply(IF allow_visible_lowering THEN "replace_bid" ELSE "replace_bid guarded",
          ReplaceBidOutcome(itembids, changes_tracker, Bank, user, item, amount,
                            allow_visible_lowering))

\* the pledge an increase would lead to stays within MaxAmount
IncreaseBid(user, item, amount) ==
    /\ amount + (IF item \in DOMAIN itembids /\ user \in OdKeys(itembids[item])
                 THEN OdGet(itembids[item], user) ELSE 0) <= MaxAmount
    /\ Apply("increase_bid",
             IncreaseBidOutcome(itembids, changes_tracker, Bank, user, item, amount))

RemoveBidOutcome_KeepsTracker(bids, tracker, user, item) ==
    IF item \notin DOMAIN bids \/ user \notin OdKeys(bids[item])
    THEN Outcome("False", bids, tracker)
    ELSE LET rest == OdDel(bids[item], user)
         IN IF rest # <<>>
            THEN Outcome("True", DictSet(bids, item, rest), UpdateLastChange(tracker, item))
            ELSE Outcome("True", DictDel(bids, item), tracker)

\* remove_bid without the 'remove if now empty' branch
RemoveBidOutcome_KeepsEmptyItem(bids, tracker, user, item) ==
    IF item \notin DOMAIN bids \/ user \notin OdKeys(bids[item])
    THEN Outcome("False", bids, tracker)
    ELSE Outcome("True", DictSet(bids, item, OdDel(bids[item], user)),
                 UpdateLastChange(tracker, item))

\* Auction.remove_bid: what it returns and the ledger it leaves behind
RemoveBidOutcome(bids, tracker, user, item) ==
    IF item \notin DOMAIN bids \/ user \notin OdKeys(bids[item])
    THEN Outcome("False", bids, tracker)
    ELSE LET rest == OdDel(bids[item], user)
         IN IF rest # <<>>
            THEN Outcome("True", DictSet(bids, item, rest), UpdateLastChange(tracker, item))
            ELSE Outcome("True", DictDel(bids, item), ListRemove(tracker, item))

RemoveBid(user, item) ==
    Apply("remove_bid", RemoveBidOutcome(itembids, changes_tracker, user, item))

\* Auction.clear: only _itembids is cleared
Clear ==
    Apply("clear", Outcome("ok", EmptyDict, changes_tracker))

\* get_winner that records the winning item as just changed
GetWinnerCall_TouchesTracker(discount_latter) ==
    /\ result' = IF GetWinner(itembids, changes_tracker, discount_latter) = None
                 THEN "None" ELSE "winner"
    /\ changes_tracker' =
         IF GetWinner(itembids, changes_tracker, discount_latter) = None
         THEN changes_tracker
         ELSE UpdateLastChange(changes_tracker,
                               GetWinner(itembids, changes_tracker, discount_latter).item)
    /\ UNCHANGED <<itembids, checkers, starting_amount, fresh, pending>>

\* a call of Auction.get_winner
GetWinnerCall(discount_latter) ==
    /\ result' = IF GetWinner(itembids, changes_tracker, discount_latter) = None
                 THEN "None" ELSE "winner"
    /\ UNCHANGED <<itembids, changes_tracker, checkers, starting_amount, fresh, pending>>

\* Auction.register_reserved_money_checker
RegisterReservedMoneyChecker ==
    /\ checkers' = checkers \cup {AuctionChecker}
    /\ result' = "register"
    /\ UNCHANGED <<itembids, changes_tracker, starting_amount, fresh, pending>>

\* Auction.deregister_reserved_money_checker: set.remove raises KeyError
DeregisterReservedMoneyChecker ==
    /\ checkers' = checkers \ {AuctionChecker}
    /\ result' = IF AuctionChecker \in checkers THEN "deregister" ELSE "KeyError"
    /\ UNCHANGED <<itembids, changes_tracker, starting_amount, fresh, pending>>

\* Auction.__init__
Init ==
    /\ itembids = EmptyDict
    /\ changes_tracker = <<>>
    /\ checkers = {AuctionChecker}
    /\ starting_amount = StartingAmount
    /\ result = "__init__"
    /\ fresh = NoAuction
    /\ pending = NoCall

Next ==
    \/ \E u \in Users, i \in Items, a \in Amounts : PlaceBid(u, i, a)
    \/ \E u \in Users, i \in Items, a \in Amounts, allow \in BOOLEAN : ReplaceBid(u, i, a, allow)
    \/ \E u \in Users, i \in Items, d \in Deltas : IncreaseBid(u, i, d)
    \/ \E u \in Users, i \in Items : RemoveBid(u, i)
    \/ Clear
    \/ \E dl \in BOOLEAN : GetWinnerCall(dl)
    \/ RegisterReservedMoneyChecker
    \/ DeregisterReservedMoneyChecker

Spec == Init /\ [][Next]_vars

\* the auction while its reserved-money function stays registered at the
\* bank: every call but deregister_reserved_money_checker
NextRegistered ==
    \/ \E u \in Users, i \in Items, a \in Amounts : PlaceBid(u, i, a)
    \/ \E u \in Users, i \in Items, a \in Amounts, allow \in BOOLEAN : ReplaceBid(u, i, a, allow)
    \/ \E u \in Users, i \in Items, d \in Deltas : IncreaseBid(u, i, d)
    \/ \E u \in Users, i \in Items : RemoveBid(u, i)
    \/ Clear
    \/ \E dl \in BOOLEAN : GetWinnerCall(dl)
    \/ RegisterReservedMoneyChecker

SpecRegistered == Init /\ [][NextRegistered]_vars

----------------------------------------------------------------------------
(* clear() against a second, freshly constructed Auction.  The auction     *)
(* collects pledges, then clear() is called and a second Auction is        *)
(* constructed with a bank of its own holding the same balances; from then *)
(* on every call is made on both objects.                                  *)

\* the bank of the second auction: its checker registered by __init__
FreshBank == [checkers |-> {AuctionChecker}, starting_amount |-> starting_amount]

\* the same call made on both auctions: o and o2 are what it leaves behind
ApplyBoth(op, o, o2) ==
    /\ fresh.constructed
    /\ itembids' = o.itembids
    /\ changes_tracker' = o.tracker
    /\ result' = IF o.out = "ok" THEN op ELSE o.out
    /\ fresh' = [constructed |-> TRUE, itembids |-> o2.itembids, tracker |-> o2.tracker]
    /\ UNCHANGED <<checkers, starting_amount, pending>>

PlaceBidBeforeClear(user, item, amount) ==
    /\ ~fresh.constructed
    /\ PlaceBid(user, item, amount)

\* clear() on the auction, Auction(bank) for the second one
ClearThenConstruct ==
    /\ ~fresh.constructed
    /\ itembids' = EmptyDict
    /\ result' = "clear"
    /\ fresh' = [constructed |-> TRUE, itembids |-> EmptyDict, tracker |-> <<>>]
    /\ UNCHANGED <<changes_tracker, checkers, starting_amount, pending>>

BothPlaceBid(user, item, amount) ==
    ApplyBoth("place_bid",
              PlaceBidOutcome(itembids, changes_tracker, Bank, user, item, amount),
              PlaceBidOutcome(fresh.itembids, fresh.tracker, FreshBank, user, item, amount))

BothReplaceBid(user, item, amount, allow_visible_lowering) ==
    ApplyBoth(IF allow_visible_lowering THEN "replace_bid" ELSE "replace_bid guarded",
              ReplaceBidOutcome(itembids, changes_tracker, Bank, user, item, amount,
                                allow_visible_lowering),
              ReplaceBidOutcome(fresh.itembids, fresh.tracker, FreshBank, user, item, amount,
                                allow_visible_lowering))

BothIncreaseBid(user, item, amount) ==
    /\ amount + (IF item \in DOMAIN itembids /\ user \in OdKeys(itembids[item])
                 THEN OdGet(itembids[item], user) ELSE 0) <= MaxAmount
    /\ ApplyBoth("increase_bid",
                 IncreaseBidOutcome(itembids, changes_tracker, Bank, user, item, amount),
                 IncreaseBidOutcome(fresh.itembids, fresh.tracker, FreshBank, user, item,
                                    amount))

BothRemoveBid(user, item) ==
    ApplyBoth("remove_bid",
              RemoveBidOutcome(itembids, changes_tracker, user, item),
              RemoveBidOutcome(fresh.itembids, fresh.tracker, user, item))

BothClear ==
    ApplyBoth("clear",
              Outcome("ok", EmptyDict, changes_tracker),
              Outcome("ok", EmptyDict, fresh.tracker))

BothGetWinner(discount_latter) ==
    /\ fresh.constructed
    /\ GetWinnerCall(discount_latter)

NextClear ==
    \/ \E u \in Users, i \in Items, a \in Amounts : PlaceBidBeforeClear(u, i, a)
    \/ ClearThenConstruct
    \/ \E u \in Users, i \in Items, a \in Amounts : BothPlaceBid(u, i, a)
    \/ \E u \in Users, i \in Items, a \in Amounts, allow \in BOOLEAN :
          BothReplaceBid(u, i, a, allow)
    \/ \E u \in Users, i \in Items, d \in Deltas : BothIncreaseBid(u, i, d)
    \/ \E u \in Users, i \in Items : BothRemoveBid(u, i)
    \/ BothClear
    \/ \E dl \in BOOLEAN : BothGetWinner(dl)

SpecClear == Init /\ [][NextClear]_vars

----------------------------------------------------------------------------
(* Calls that are not serialized.  A guarded replace_bid runs in two steps, *)
(* its checks (up to the headroom check) and its write to the ledger, and   *)
(* place_bid and remove_bid calls of other threads may run in between.      *)
(* pending holds the call between the two steps and, for one step after the *)
(* write, what the write found: the bid it replaced, get_winner() just      *)
(* before it, and whether another call changed the ledger in between.       *)

\* a whole call of another thread; it marks a call caught between its steps
ApplyRacing(op, o) ==
    /\ itembids' = o.itembids
    /\ changes_tracker' = o.tracker
    /\ result' = IF o.out = "ok" THEN op ELSE o.out
    /\ pending' = IF ~pending.active THEN NoCall
                  ELSE IF o.itembids # itembids \/ o.tracker # changes_tracker
                  THEN [pending EXCEPT !.raced = TRUE]
                  ELSE pending
    /\ UNCHANGED <<checkers, starting_amount, fresh>>

RacingPlaceBid(user, item, amount) ==
    ApplyRacing("place_bid",
                PlaceBidOutcome(itembids, changes_tracker, Bank, user, item, amount))

RacingRemoveBid(user, item) ==
    ApplyRacing("remove_bid", RemoveBidOutcome(itembids, changes_tracker, user, item))

\* the checks of replace_bid with the guard left off
GuardedReplaceCheck_Unguarded(user, item, amount) ==
    /\ ~pending.active
    /\ LET out == HandleBidCheck(itembids, changes_tracker, Bank, user, item, amount,
                                 TRUE, TRUE)
       IN /\ result' = IF out = "ok" THEN "checked" ELSE out
          /\ pending' = IF out = "ok"
                        THEN [NoCall EXCEPT !.active = TRUE, !.user = user,
                                            !.item = item, !.amount = amount]
                        ELSE NoCall
    /\ UNCHANGED <<itembids, changes_tracker, checkers, starting_amount, fresh>>

\* replace_bid(user, item, amount, allow_visible_lowering=False) up to and
\* including the headroom check
GuardedReplaceCheck(user, item, amount) ==
    /\ ~pending.active
    /\ LET out == HandleBidCheck(itembids, changes_tracker, Bank, user, item, amount,
                                 TRUE, FALSE)
       IN /\ result' = IF out = "ok" THEN "checked" ELSE out
          /\ pending' = IF out = "ok"
                        THEN [NoCall EXCEPT !.active = TRUE, !.user = user,
                                            !.item = item, !.amount = amount]
                        ELSE NoCall
    /\ UNCHANGED <<itembids, changes_tracker, checkers, starting_amount, fresh>>

\* the rest of that call: _update_last_change, the write and move_to_end, on
\* the ledger as it is by now
GuardedReplaceWrite ==
    /\ pending.active
    /\ LET od == IF pending.item \in DOMAIN itembids THEN itembids[pending.item] ELSE <<>>
       IN /\ itembids' = DictSet(itembids, pending.item,
                                 OdMoveToEnd(OdSet(od, pending.user, pending.amount),
                                             pending.user))
          /\ pending' = [pending EXCEPT
                           !.active = FALSE,
                           !.written = TRUE,
                           !.previous_bid = IF pending.user \in OdKeys(od)
                                            THEN OdGet(od, pending.user) ELSE 0,
                           !.before = GetWinner(itembids, changes_tracker, FALSE)]
    /\ changes_tracker' = UpdateLastChange(changes_tracker, pending.item)
    /\ result' = "replace_bid guarded"
    /\ UNCHANGED <<checkers, starting_amount, fresh>>

NextRace ==
    \/ \E u \in Users, i \in Items, a \in Amounts : RacingPlaceBid(u, i, a)
    \/ \E u \in Users, i \in Items : RacingRemoveBid(u, i)
    \/ \E u \in Users, i \in Items, a \in Amounts : GuardedReplaceCheck(u, i, a)
    \/ GuardedReplaceWrite

SpecRace == Init /\ [][NextRace]_vars

----------------------------------------------------------------------------
(* The older bidcatv2.Auction.  Its fields carry the same names, and in     *)
(* SpecV2 itembids, changes_tracker and result are the fields and the last  *)
(* outcome of a bidcatv2.Auction.  _itembids is a defaultdict(OrderedDict): *)
(* reading self._itembids[item] for an absent item inserts an empty         *)
(* mapping.                                                                 *)

\* self._itembids[item] on the defaultdict: the dict after the read
V2Touch(bids, item) == IF item \in DOMAIN bids THEN bids ELSE DictSet(bids, item, <<>>)

\* bidcatv2 Auction.place_bid: previous_amount is popped before the checks
V2PlaceBidOutcome(bids, tracker, bank, user, item, amount, add) ==
    IF amount < 1 THEN Outcome("ValueError", bids, tracker)
    ELSE LET od == V2Touch(bids, item)[item]
             previous_amount == IF user \in OdKeys(od) THEN OdGet(od, user) ELSE 0
             popped == DictSet(bids, item, OdDel(od, user))
             total == IF add THEN amount + previous_amount ELSE amount
         IN IF ~add /\ previous_amount = amount
            THEN Outcome("no change", popped, tracker)
            ELSE IF total > GetAvailableMoney(popped, bank, user)
            THEN Outcome("InsufficientMoneyError", popped, tracker)
            ELSE Outcome("ok",
                         DictSet(popped, item, OdSet(popped[item], user, total)),
                         UpdateLastChange(tracker, item))

\* bidcatv2 Auction.remove_bid: del self._itembids[item][user] under try
V2RemoveBidOutcome(bids, tracker, user, item) ==
    LET touched == V2Touch(bids, item)
    IN IF user \notin OdKeys(touched[item])
       THEN Outcome("False", touched, tracker)
       ELSE LET rest == OdDel(touched[item], user)
            IN IF rest # <<>>
               THEN Outcome("True", DictSet(touched, item, rest),
                            UpdateLastChange(tracker, item))
               ELSE Outcome("True", DictDel(touched, item), ListRemove(tracker, item))

\* bidcatv2 Auction.get_winner: the sort key calls
\* self._changes_tracker.index(item) for every item of _itembids, which
\* raises ValueError for an item the tracker does not hold
V2GetWinner(bids, tracker) ==
    IF \E i \in DOMAIN bids : i \notin Range(tracker) THEN [item |-> "ValueError"]
    ELSE LET w == GetWinner(bids, tracker, FALSE)
         IN IF w = None THEN None
            ELSE [item |-> w.item, money_max |-> w.total_bid,
                  money_actual |-> w.total_charge, money_owed |-> w.money_owed]

V2PlaceBid(user, item, amount, add) ==
    /\ add => amount + (IF item \in DOMAIN itembids /\ user \in OdKeys(itembids[item])
                        THEN OdGet(itembids[item], user) ELSE 0) <= MaxAmount
    /\ Apply("place_bid",
             V2PlaceBidOutcome(itembids, changes_tracker, Bank, user, item, amount, add))

V2RemoveBid(user, item) ==
    Apply("remove_bid", V2RemoveBidOutcome(itembids, changes_tracker, user, item))

V2GetWinnerCall ==
    /\ result' = IF V2GetWinner(itembids, changes_tracker) = None THEN "None"
                 ELSE IF V2GetWinner(itembids, changes_tracker).item = "ValueError"
                 THEN "ValueError in get_winner"
                 ELSE "winner"
    /\ UNCHANGED <<itembids, changes_tracker, checkers, starting_amount, fresh, pending>>

NextV2 ==
    \/ \E u \in Users, i \in Items, a \in Amounts, add \in BOOLEAN : V2PlaceBid(u, i, a, add)
    \/ \E u \in Users, i \in Items : V2RemoveBid(u, i)
    \/ V2GetWinnerCall

SpecV2 == Init /\ [][NextV2]_vars

----------------------------------------------------------------------------
(* Scripted runs with larger amounts: a DummyBank with its own starting    *)
(* amount, the pledges of PledgeScript placed one after the other with any *)
(* amount up to MaxPledge, and get_winner called in between.               *)

PledgeScript ==
    << <<"alice", "pepsiman">>, <<"bob", "pepsiman">>, <<"charlie", "katamari">> >>

NumPledges == SumDict([i \in DOMAIN itembids |-> Len(itembids[i])])

InitPledges ==
    /\ itembids = EmptyDict
    /\ changes_tracker = <<>>
    /\ checkers = {AuctionChecker}
    /\ starting_amount = DefaultStartingAmount
    /\ result = "__init__"
    /\ fresh = NoAuction
    /\ pending = NoCall

ScriptedPlaceBid(amount) ==
    /\ NumPledges < Len(PledgeScript)
    /\ PlaceBid(PledgeScript[NumPledges + 1][1], PledgeScript[NumPledges + 1][2], amount)

NextPledges ==
    \/ \E a \in 1..MaxPledge : ScriptedPlaceBid(a)
    \/ \E dl \in BOOLEAN : GetWinnerCall(dl)

SpecPledges == InitPledges /\ [][NextPledges]_vars

(* A second script for the allotment among three bidders: alice, bob and
   charlie pledge on pepsiman and deku on katamari, in this order.  The
   amounts are the small ones, and four larger ones that bring the winning
   total to 85 against a runner-up of 84. *)

ShareScript ==
    << <<"alice", "pepsiman">>, <<"bob", "pepsiman">>, <<"charlie", "pepsiman">>,
       <<"deku", "katamari">> >>

ShareAmounts == (1..MaxShare) \cup {11, 22, 52, 84}

ScriptedShareBid(amount) ==
    /\ NumPledges < Len(ShareScript)
    /\ PlaceBid(ShareScript[NumPledges + 1][1], ShareScript[NumPledges + 1][2], amount)

NextShares ==
    \/ \E a \in ShareAmounts : ScriptedShareBid(a)
    \/ \E dl \in BOOLEAN : GetWinnerCall(dl)

SpecShares == InitPledges /\ [][NextShares]_vars

----------------------------------------------------------------------------
(* Properties *)

Winner == GetWinner(itembids, changes_tracker, FALSE)
WinnerLatter == GetWinner(itembids, changes_tracker, TRUE)

HasPledges == \E i \in DOMAIN itembids : itembids[i] # <<>>

Owed(w) == [i \in DOMAIN w.money_owed |-> w.money_owed[i].owed]

Min(a, b) == IF a < b THEN a ELSE b

Last(s) == s[Len(s)]

HasBid(user, item) == item \in DOMAIN itembids /\ user \in OdKeys(itembids[item])

PreviousBid(user, item) == OdGet(itembids[item], user)

\* every [user, amount] entry of the ledger that belongs to the user
PledgesOf(user) ==
    {<<i, k>> \in Items \X (1..Cardinality(Users) + 1) :
        i \in DOMAIN itembids /\ k \in DOMAIN itembids[i] /\ itembids[i][k].user = user}

RECURSIVE SumPledges(_)
SumPledges(S) ==
    IF S = {} THEN 0
    ELSE LET p == CHOOSE x \in S : TRUE
         IN itembids[p[1]][p[2]].amount + SumPledges(S \ {p})

\* get_winner() can be called in every state and changes nothing but result,
\* so the states it leaves carry every reachable ledger, change tracker and
\* bank. What a call would do next depends on these alone; the formulas
\* about it are evaluated in the states get_winner() leaves.
AfterGetWinner == result \in {"winner", "None"}

Rejections == {"ValueError", "AlreadyBidError", "NoExistingBidError",
               "InsufficientMoneyError", "VisiblyLoweredError"}

Mutations == {"place_bid", "replace_bid", "replace_bid guarded", "increase_bid",
              "True", "clear"}

\* C1: whenever there is a live pledge, the money_owed values of get_winner()
\* add up to total_charge, and total_charge <= total_bid.
C1_OwedSumsToCharge ==
    HasPledges =>
        LET w == Winner
        IN /\ w # None
           /\ SumSeq(Owed(w)) = w.total_charge
           /\ w.total_charge <= w.total_bid

\* a winner with two bidders whose ceiled shares had to be discounted
C1_Witness ==
    /\ HasPledges
    /\ result \in Mutations
    /\ LET w == Winner
       IN /\ Len(w.money_owed) = 2
          /\ w.total_charge < w.total_bid
          /\ \E i \in 1..2 : w.money_owed[i].owed = 0

\* C2: in every state with a winner, under both discount policies, money_owed
\* has exactly the bidders of the winning item as keys and charges each of
\* them at least 0 and at most the amount they pledged on that item.
C2_OwedWithinPledge ==
    HasPledges =>
        \A w \in {Winner, WinnerLatter} :
            /\ {w.money_owed[i].user : i \in DOMAIN w.money_owed} = OdKeys(itembids[w.item])
            /\ Len(w.money_owed) = Len(itembids[w.item])
            /\ \A i \in DOMAIN w.money_owed :
                 /\ 0 <= w.money_owed[i].owed
                 /\ w.money_owed[i].owed <= OdGet(itembids[w.item], w.money_owed[i].user)

\* the total of the best item other than the given one, 0 when there is none
RunnerUpTotal(item) ==
    LET others == (DOMAIN itembids) \ {item}
    IN IF others = {} THEN 0
       ELSE CHOOSE t \in {ItemTotal(itembids, i) : i \in others} :
                \A i \in others : ItemTotal(itembids, i) <= t

\* C3: total_bid is the sum of the pledges on the top-ranked item and
\* total_charge = min(total_bid, second_bid + 1), second_bid being the total
\* of the next-ranked item, or 0 when no other item has pledges.
C3_SecondPrice ==
    HasPledges =>
        LET w == Winner
        IN /\ w.item = GetAllBidsOrdered(itembids, changes_tracker)[1]
           /\ w.total_bid = SumPledges({<<w.item, k>> : k \in DOMAIN itembids[w.item]})
           /\ w.total_charge = Min(w.total_bid, RunnerUpTotal(w.item) + 1)

\* a winner that pays less than its total because the runner-up leaves a gap
C3_Witness ==
    /\ Cardinality(DOMAIN itembids) = 2
    /\ result = "winner"
    /\ LET w == Winner
       IN /\ RunnerUpTotal(w.item) + 1 < w.total_bid
          /\ w.total_charge = RunnerUpTotal(w.item) + 1

\* C4 as stated: when exactly one item has live pledges, total_charge equals
\* total_bid.
C4_UncontestedPaysTotal ==
    Cardinality(DOMAIN itembids) = 1 =>
        LET w == Winner IN w.total_charge = w.total_bid

\* C4 amended: when exactly one item has live pledges, total_charge is 1
\* (second_bid counts as 0, so the winner pays min(total_bid, 1)).
C4_UncontestedPaysOne ==
    Cardinality(DOMAIN itembids) = 1 => Winner.total_charge = 1

\* the only item with pledges has a total above 1 and get_winner was called
C4_Witness ==
    /\ Cardinality(DOMAIN itembids) = 1
    /\ result = "winner"
    /\ Winner.total_bid > 1

\* C5: get_all_bids_ordered() lists exactly the items with live pledges,
\* by total descending and, on equal totals, by earlier position in the
\* change tracker; get_winner() returns its first item.
C5_Ranking ==
    LET ordered == GetAllBidsOrdered(itembids, changes_tracker)
    IN /\ Range(ordered) = DOMAIN itembids
       /\ Len(ordered) = Cardinality(DOMAIN itembids)
       /\ \A i, j \in DOMAIN ordered :
            i < j =>
                \/ ItemTotal(itembids, ordered[i]) > ItemTotal(itembids, ordered[j])
                \/ /\ ItemTotal(itembids, ordered[i]) = ItemTotal(itembids, ordered[j])
                   /\ Index(changes_tracker, ordered[i]) < Index(changes_tracker, ordered[j])
       /\ HasPledges => Winner.item = ordered[1]

\* two items tie and the one changed less recently is the winner
C5_Witness ==
    /\ Cardinality(DOMAIN itembids) = 2
    /\ Len(changes_tracker) = 2
    /\ ItemTotal(itembids, changes_tracker[1]) = ItemTotal(itembids, changes_tracker[2])
    /\ Winner.item = changes_tracker[1]

\* what the bank reports as available: the balance less the reservations of
\* the registered checkers
Available(user) ==
    starting_amount -
        (IF AuctionChecker \in checkers THEN SumPledges(PledgesOf(user)) ELSE 0)

PlaceOut(u, i, a) == PlaceBidOutcome(itembids, changes_tracker, Bank, u, i, a)
ReplaceOut(u, i, a, allow) ==
    ReplaceBidOutcome(itembids, changes_tracker, Bank, u, i, a, allow)
IncreaseOut(u, i, d) == IncreaseBidOutcome(itembids, changes_tracker, Bank, u, i, d)

RemoveOut(u, i) == RemoveBidOutcome(itembids, changes_tracker, u, i)

\* when the call changed the amount pledged on the item and left it with
\* pledges, the item is the last entry of the tracker, and every other item
\* with the same total ranks ahead of it
MovedLast(o, item) ==
    o.out \in {"ok", "True"} /\ item \in DOMAIN o.itembids =>
        /\ o.tracker # <<>>
        /\ Last(o.tracker) = item
        /\ \A y \in (DOMAIN o.itembids) \ {item} :
             ItemTotal(o.itembids, y) = ItemTotal(o.itembids, item) =>
                LET ordered == GetAllBidsOrdered(o.itembids, o.tracker)
                IN Index(ordered, y) < Index(ordered, item)

\* C6: in every state, a successful place_bid, amount-changing replace_bid
\* or increase_bid on an item, and a remove_bid that leaves the item with
\* pledges, makes the item the last entry of the change tracker, so that an
\* item with the same total that was not changed ranks ahead of it.
C6_ChangeMovesItemLast ==
    AfterGetWinner =>
    \A u \in Users, i \in Items :
        /\ \A a \in Amounts :
             /\ MovedLast(PlaceOut(u, i, a), i)
             /\ \A allow \in BOOLEAN : MovedLast(ReplaceOut(u, i, a, allow), i)
        /\ \A d \in Deltas : MovedLast(IncreaseOut(u, i, d), i)
        /\ MovedLast(RemoveOut(u, i), i)

\* an increase_bid brought the item to the total of the other item, which wins
C6_Witness ==
    /\ result = "increase_bid"
    /\ Len(changes_tracker) = 2
    /\ Cardinality(DOMAIN itembids) = 2
    /\ ItemTotal(itembids, changes_tracker[1]) = ItemTotal(itembids, changes_tracker[2])
    /\ Winner.item = changes_tracker[1]

\* C7: for every bidder, get_reserved_money(bidder) is the sum of the
\* bidder's live pledge amounts over all items, and 0 after clear().
C7_ReservedIsSumOfPledges ==
    \A u \in Users \cup {"charlie"} :
        /\ GetReservedMoney(itembids, u) = SumPledges(PledgesOf(u))
        /\ result = "clear" => GetReservedMoney(itembids, u) = 0

\* a bidder with pledges on two items, more than one unit on one of them
C7_Witness ==
    \E u \in Users :
        /\ Cardinality(PledgesOf(u)) = 2
        /\ GetReservedMoney(itembids, u) > 2

\* C8: a rejected mutation leaves the pledges, the per-item bidder order and
\* the change tracker as they were.
C8_RejectionChangesNothing ==
    [][result' \in Rejections =>
         /\ itembids' = itembids
         /\ changes_tracker' = changes_tracker]_vars

\* a lowering was rejected by the guard
C8_Witness ==
    /\ result = "VisiblyLoweredError"
    /\ Cardinality(DOMAIN itembids) = 2

\* C9: in every state, a place_bid, or a replace_bid / increase_bid that
\* changes the amount, which passes the amount and pledge-state checks is
\* rejected with InsufficientMoneyError exactly when the net new money (the
\* new amount, less the current pledge when replacing) exceeds the available
\* money; a raise within the available money is applied.
C9_InsufficientMoney ==
    AfterGetWinner =>
    \A u \in Users :
        LET avail == Available(u)
        IN \A i \in Items :
            IF ~HasBid(u, i)
            THEN \A a \in 1..MaxAmount :
                    /\ PlaceOut(u, i, a).out = "InsufficientMoneyError" <=> a > avail
                    /\ a <= avail => PlaceOut(u, i, a).out = "ok"
            ELSE LET prev == PreviousBid(u, i)
                 IN /\ \A a \in (1..MaxAmount) \ {prev} :
                         /\ ReplaceOut(u, i, a, TRUE).out = "InsufficientMoneyError"
                              <=> a - prev > avail
                         /\ a > prev =>
                              LET o == ReplaceOut(u, i, a, FALSE)
                              IN /\ o.out = "InsufficientMoneyError" <=> a - prev > avail
                                 /\ a - prev <= avail =>
                                      o.out = "ok" /\ OdGet(o.itembids[i], u) = a
                    /\ \A d \in Deltas \ {0} :
                         prev + d >= 1 =>
                            (IncreaseOut(u, i, d).out = "InsufficientMoneyError" <=> d > avail)

\* a bidder raised a pledge although the new amount exceeds what was
\* available before the call, and now has the whole balance pledged
C9_Witness ==
    /\ result = "replace_bid"
    /\ AuctionChecker \in checkers
    /\ LET x == Last(changes_tracker)
           e == Last(itembids[x])
       IN /\ SumPledges(PledgesOf(e.user)) = starting_amount
          /\ e.amount = MaxAmount
          /\ Cardinality(PledgesOf(e.user)) = 2

\* C10: in every state, a guarded replace_bid (allow_visible_lowering=False)
\* that lowers a pledge on the winning item and reaches the guard is
\* rejected with VisiblyLoweredError exactly when the decrease exceeds
\* total_bid - total_charge of the winner before the change; otherwise it is
\* applied.
C10_HeadroomGuard ==
    AfterGetWinner /\ HasPledges =>
        LET w == Winner
            i == w.item
        IN \A u \in OdKeys(itembids[i]) :
            LET prev == PreviousBid(u, i)
            IN \A a \in 1..(prev - 1) :
                a - prev <= Available(u) =>
                    LET o == ReplaceOut(u, i, a, FALSE)
                    IN /\ o.out = "VisiblyLoweredError"
                            <=> prev - a > w.total_bid - w.total_charge
                       /\ o.out # "VisiblyLoweredError" =>
                            /\ o.out = "ok"
                            /\ OdGet(o.itembids[i], u) = a

\* a guarded replace_bid lowered a pledge to 1 on the item that wins
C10_Witness ==
    /\ result = "replace_bid guarded"
    /\ Cardinality(DOMAIN itembids) = 2
    /\ Last(itembids[Last(changes_tracker)]).amount = 1
    /\ Winner.item = Last(changes_tracker)

\* the guarded lowerings a state offers: a bidder, an item holding a pledge
\* of the bidder and an amount from 1 to one below that pledge
Lowerings ==
    {<<u, i, a>> \in Users \X Items \X (1..MaxAmount) :
        HasBid(u, i) /\ a < PreviousBid(u, i)}

\* C11 as stated: with the guard active, a replace_bid that lowers a pledge
\* on an item that is not the current winner succeeds for any amount >= 1.
C11_LosingLoweringAccepted ==
    \A l \in Lowerings :
        Winner.item # l[2] => ReplaceOut(l[1], l[2], l[3], FALSE).out = "ok"

\* C11 amended: with the guard active, a replace_bid that lowers a pledge on
\* an item that is not the current winner is never applied; it is rejected
\* with VisiblyLoweredError whenever it passes the funds check (with
\* InsufficientMoneyError otherwise) and leaves the ledger as it was.
C11_LosingLoweringRejected ==
    AfterGetWinner =>
    \A l \in Lowerings :
        Winner.item # l[2] =>
            LET o == ReplaceOut(l[1], l[2], l[3], FALSE)
            IN /\ o.out \in {"VisiblyLoweredError", "InsufficientMoneyError"}
               /\ l[3] - PreviousBid(l[1], l[2]) <= Available(l[1])
                    => o.out = "VisiblyLoweredError"
               /\ o.itembids = itembids
               /\ o.tracker = changes_tracker

\* the guard rejected a lowering although every pledge on the winning item
\* is 1 and cannot be lowered: the rejected lowering was on the losing item
C11_Witness ==
    /\ result = "VisiblyLoweredError"
    /\ Cardinality(DOMAIN itembids) = 2
    /\ LET w == Winner
       IN /\ \A k \in DOMAIN itembids[w.item] : itembids[w.item][k].amount = 1
          /\ \E l \in Lowerings : l[2] # w.item

\* C12: in every state, a guarded replace_bid that lowers a pledge and is
\* accepted leaves get_winner() reporting the same winning item and the same
\* total_charge as before the call.
C12_AcceptedLoweringKeepsPrice ==
    AfterGetWinner =>
    \A l \in Lowerings :
        LET o == ReplaceOut(l[1], l[2], l[3], FALSE)
        IN o.out = "ok" =>
            LET before == Winner
                after  == GetWinner(o.itembids, o.tracker, FALSE)
            IN /\ after.item = before.item
               /\ after.total_charge = before.total_charge

\* a guarded replace_bid lowered a pledge to 1 on the winning item of two
\* and used up the headroom: the winner now pays its whole total
C12_Witness ==
    /\ result = "replace_bid guarded"
    /\ Cardinality(DOMAIN itembids) = 2
    /\ Last(itembids[Last(changes_tracker)]).amount = 1
    /\ LET w == Winner
       IN /\ w.item = Last(changes_tracker)
          /\ w.total_charge = w.total_bid
          /\ w.total_bid >= 2

\* the lowerings of a pledge on the winning item by more than the headroom
LoweringsPastHeadroom ==
    {l \in Lowerings :
        LET w == Winner
        IN /\ w.item = l[2]
           /\ PreviousBid(l[1], l[2]) - l[3] > w.total_bid - w.total_charge}

\* C13 as stated: a replace_bid called with no option that lowers the
\* winning item's pledge by more than the headroom is rejected.
C13_DefaultReplaceIsGuarded ==
    \A l \in LoweringsPastHeadroom :
        ReplaceOut(l[1], l[2], l[3], DefaultAllowVisibleLowering).out
            = "VisiblyLoweredError"

\* C13 amended: the visible-lowering check is applied only when the caller
\* asks for it; a replace_bid called with no option that lowers the winning
\* item's pledge by more than the headroom is never rejected by the guard
\* and, once it passes the funds check, is applied.
C13_DefaultReplaceBypassesGuard ==
    AfterGetWinner =>
    \A l \in LoweringsPastHeadroom :
        LET o == ReplaceOut(l[1], l[2], l[3], DefaultAllowVisibleLowering)
        IN /\ o.out # "VisiblyLoweredError"
           /\ l[3] - PreviousBid(l[1], l[2]) <= Available(l[1]) =>
                /\ o.out = "ok"
                /\ OdGet(o.itembids[l[2]], l[1]) = l[3]
           /\ ReplaceOut(l[1], l[2], l[3], FALSE).out
                \in {"VisiblyLoweredError", "InsufficientMoneyError"}

\* a replace_bid without the option lowered a pledge to 1 and brought its
\* item, the winner until then, down to the total of the other item, which
\* now wins
C13_Witness ==
    /\ result = "replace_bid"
    /\ Len(changes_tracker) = 2
    /\ Cardinality(DOMAIN itembids) = 2
    /\ Last(itembids[changes_tracker[2]]).amount = 1
    /\ ItemTotal(itembids, changes_tracker[1]) = ItemTotal(itembids, changes_tracker[2])
    /\ Winner.item = changes_tracker[1]
    /\ Winner.total_bid >= 2

\* the amounts a call may pass that are not positive
NonPositive == (-MaxAmount)..0

\* the pledges of the ledger other than the bidder's on the item, as a set
\* of <<item, user, amount>>
OtherPledges(bids, user, item) ==
    {<<i, bids[i][k].user, bids[i][k].amount>> :
        <<i, k>> \in {p \in Items \X (1..Cardinality(Users) + 1) :
                        /\ p[1] \in DOMAIN bids
                        /\ p[2] \in DOMAIN bids[p[1]]
                        /\ ~(p[1] = item /\ bids[p[1]][p[2]].user = user)}}

\* C14: in every state, place_bid with an amount >= 1 fails with
\* AlreadyBidError exactly when the bidder already has a live pledge on the
\* item; otherwise, within the available money, it creates the pledge with
\* that amount and touches no other pledge. After remove_bid of a pledge,
\* place_bid for the same pair is not refused as already pledged and, within
\* the available money, creates the pledge.
C14_AlreadyBid ==
    AfterGetWinner =>
    \A u \in Users, i \in Items, a \in 1..MaxAmount :
        LET o == PlaceOut(u, i, a)
        IN /\ o.out = "AlreadyBidError" <=> HasBid(u, i)
           /\ ~HasBid(u, i) /\ a <= Available(u) =>
                /\ o.out = "ok"
                /\ i \in DOMAIN o.itembids
                /\ Last(o.itembids[i]) = [user |-> u, amount |-> a]
                /\ OtherPledges(o.itembids, u, i) = OtherPledges(itembids, u, i)
           /\ HasBid(u, i) =>
                LET r == RemoveOut(u, i)
                    again == PlaceBidOutcome(r.itembids, r.tracker, Bank, u, i, a)
                IN /\ r.out = "True"
                   /\ again.out # "AlreadyBidError"
                   /\ a <= Available(u) + (IF AuctionChecker \in checkers
                                            THEN PreviousBid(u, i) ELSE 0) =>
                        /\ again.out = "ok"
                        /\ Last(again.itembids[i]) = [user |-> u, amount |-> a]

\* a place_bid was refused although the bidder could afford it: the bidder
\* holds one pledge of one unit and nothing else
C14_Witness ==
    /\ result = "AlreadyBidError"
    /\ AuctionChecker \in checkers
    /\ \E u \in Users :
         /\ Cardinality(PledgesOf(u)) = 1
         /\ SumPledges(PledgesOf(u)) = 1
         /\ \A v \in Users \ {u} : PledgesOf(v) = {}

\* C15: in every state, replace_bid with an amount >= 1 (with or without
\* the guard) and increase_bid with a delta >= 1 fail with
\* NoExistingBidError exactly when the bidder has no live pledge on the item,
\* and then leave the ledger and the change tracker as they were.
C15_NoExistingBid ==
    AfterGetWinner =>
    \A u \in Users, i \in Items, a \in 1..MaxAmount :
        /\ \A allow \in BOOLEAN :
             LET o == ReplaceOut(u, i, a, allow)
             IN /\ o.out = "NoExistingBidError" <=> ~HasBid(u, i)
                /\ ~HasBid(u, i) =>
                     o.itembids = itembids /\ o.tracker = changes_tracker
        /\ LET o == IncreaseOut(u, i, a)
           IN /\ o.out = "NoExistingBidError" <=> ~HasBid(u, i)
              /\ ~HasBid(u, i) =>
                   o.itembids = itembids /\ o.tracker = changes_tracker

\* a replacement or an increase was refused for a bidder who has a pledge
\* on the other item only
C15_Witness ==
    /\ result = "NoExistingBidError"
    /\ Cardinality(DOMAIN itembids) = 1
    /\ \E u \in Users : Cardinality(PledgesOf(u)) = 1 /\ SumPledges(PledgesOf(u)) = MaxAmount

\* C16: in every state, replace_bid with the amount the bidder has pledged
\* on the item returns without an error and changes nothing: the pledges,
\* the order of the bidders on every item and the change tracker stay as
\* they were (the ranking of the items and the discount order among the
\* bidders are functions of these alone).
C16_SameAmountIsNoOp ==
    AfterGetWinner =>
    \A u \in Users, i \in Items :
        HasBid(u, i) =>
            \A allow \in BOOLEAN :
                LET o == ReplaceOut(u, i, PreviousBid(u, i), allow)
                IN /\ o.out \notin Rejections \cup {"KeyError"}
                   /\ o.itembids = itembids
                   /\ o.tracker = changes_tracker

\* a same-amount call returned while two items tie, and the item changed
\* less recently still wins
C16_Witness ==
    /\ result = "no change"
    /\ Len(changes_tracker) = 2
    /\ Cardinality(DOMAIN itembids) = 2
    /\ ItemTotal(itembids, changes_tracker[1]) = ItemTotal(itembids, changes_tracker[2])
    /\ Len(itembids[changes_tracker[1]]) = 2
    /\ Winner.item = changes_tracker[1]

\* C17: in every state, place_bid and replace_bid called with an amount
\* <= 0 raise ValueError whatever the pledge state, the option and the
\* bidder's funds, and change nothing; every amount in the ledger is a
\* positive integer.
C17_InvalidAmount ==
    /\ AfterGetWinner =>
         \A u \in Users, i \in Items, a \in NonPositive :
            /\ PlaceOut(u, i, a) = Outcome("ValueError", itembids, changes_tracker)
            /\ \A allow \in BOOLEAN :
                 ReplaceOut(u, i, a, allow)
                   = Outcome("ValueError", itembids, changes_tracker)
    /\ \A i \in DOMAIN itembids :
         \A k \in DOMAIN itembids[i] : itembids[i][k].amount >= 1

\* an amount was refused while both bidders hold pledges
C17_Witness ==
    /\ result = "ValueError"
    /\ \A u \in Users : PledgesOf(u) # {}

\* C18: in every state, increase_bid with a delta <= 0 raises ValueError and
\* changes nothing, whatever the pledge state.
C18_IncreaseRejectsNonPositive ==
    \A u \in Users, i \in Items, d \in NonPositive :
        IncreaseOut(u, i, d) = Outcome("ValueError", itembids, changes_tracker)

\* the bidder's pledge on the item, 0 when there is none
CurrentAmount(user, item) == IF HasBid(user, item) THEN PreviousBid(user, item) ELSE 0

\* C19: in every state, for every bidder, item and delta (positive, zero or
\* negative), increase_bid(bidder, item, delta) ends as
\* replace_bid(bidder, item, current_amount + delta) called without the
\* option does: the same error, or the same ledger and change tracker.
C19_IncreaseIsReplace ==
    AfterGetWinner =>
    \A u \in Users, i \in Items, d \in (-MaxAmount)..MaxAmount :
        LET inc == IncreaseOut(u, i, d)
            rep == ReplaceOut(u, i, CurrentAmount(u, i) + d, DefaultAllowVisibleLowering)
        IN /\ inc.out = rep.out
           /\ inc.itembids = rep.itembids
           /\ inc.tracker = rep.tracker
           /\ HasBid(u, i) /\ inc.out = "ok" =>
                OdGet(inc.itembids[i], u) = PreviousBid(u, i) + d

\* an increase_bid raised a pledge to MaxAmount on an item that has two
\* bidders, next to another item
C19_Witness ==
    /\ result = "increase_bid"
    /\ Cardinality(DOMAIN itembids) = 2
    /\ LET x == Last(changes_tracker)
       IN /\ Len(itembids[x]) = 2
          /\ Last(itembids[x]).amount = MaxAmount

\* C20: in every state, remove_bid(bidder, item) returns True exactly when
\* the bidder has a live pledge on the item. It then deletes that pledge
\* alone: every other pledge and the order of the remaining bidders stay,
\* and an item left without pledges is gone from the ledger and from the
\* change tracker. When it returns False the ledger and the change tracker
\* are unchanged.
C20_RemoveBid ==
    AfterGetWinner =>
    \A u \in Users, i \in Items :
        LET o == RemoveOut(u, i)
        IN /\ o.out \in {"True", "False"}
           /\ o.out = "True" <=> HasBid(u, i)
           /\ o.out = "False" =>
                o.itembids = itembids /\ o.tracker = changes_tracker
           /\ o.out = "True" =>
                /\ OtherPledges(o.itembids, u, i) = OtherPledges(itembids, u, i)
                /\ \A j \in DOMAIN o.itembids : u \notin OdKeys(o.itembids[j]) \/ j # i
                /\ \A j \in (DOMAIN itembids) \ {i} :
                     j \in DOMAIN o.itembids /\ o.itembids[j] = itembids[j]
                /\ IF Len(itembids[i]) = 1
                   THEN /\ i \notin DOMAIN o.itembids
                        /\ i \notin Range(o.tracker)
                        /\ i \notin Range(GetAllBidsOrdered(o.itembids, o.tracker))
                   ELSE /\ i \in DOMAIN o.itembids
                        /\ Len(o.itembids[i]) = Len(itembids[i]) - 1
                        /\ \A k \in DOMAIN o.itembids[i] :
                             o.itembids[i][k] =
                                IF k < OdPos(itembids[i], u)
                                THEN itembids[i][k] ELSE itembids[i][k + 1]

\* a remove_bid deleted the last pledge of an item: the only item left has
\* both bidders and is alone in the change tracker
C20_Witness ==
    /\ result = "True"
    /\ Cardinality(DOMAIN itembids) = 1
    /\ Len(changes_tracker) = 1
    /\ Len(itembids[changes_tracker[1]]) = Cardinality(Users)

----------------------------------------------------------------------------
(* C21: in every reachable state, states reached through clear() included,
   the change tracker holds exactly the items with at least one live
   pledge, each exactly once. *)
C21_TrackerIsLiveItems ==
    /\ Range(changes_tracker) = {i \in DOMAIN itembids : itembids[i] # <<>>}
    /\ Len(changes_tracker) = Cardinality(Range(changes_tracker))

(* C22: get_winner() returns None exactly when the ledger holds no live
   pledge (initially, after clear(), after the last pledge was removed) and
   a winner result in every other reachable state. *)
C22_NoneIffNoPledge ==
    /\ \A dl \in BOOLEAN :
         (GetWinner(itembids, changes_tracker, dl) = None) <=> ~HasPledges
    /\ result = "None" => itembids = EmptyDict
    /\ result = "winner" => HasPledges

\* get_winner() answered None after clear() emptied a ledger that had pledges
C22_Witness ==
    /\ result = "None"
    /\ changes_tracker # <<>>
    /\ itembids = EmptyDict

(* C23: in every reachable state every amount in get_all_bids() is a
   positive integer and no item is present with an empty bidder mapping. *)
C23_PositiveAmountsNoEmptyItem ==
    \A i \in DOMAIN itembids :
        /\ itembids[i] # <<>>
        /\ \A k \in DOMAIN itembids[i] : itembids[i][k].amount \in Nat \ {0}

\* remove_bid took the last pledge of the last item: the ledger is empty again
C23_Witness ==
    /\ result = "True"
    /\ itembids = EmptyDict

(* C24: get_winner() changes neither the pledges nor any recency order (of
   the items or of an item's bidders), and a second call right after it
   returns the same item, total_bid, total_charge and money_owed, under
   either discount policy. *)
C24_GetWinnerChangesNothing ==
    [][result' \in {"winner", "None"} =>
          /\ itembids' = itembids
          /\ changes_tracker' = changes_tracker
          /\ \A dl \in BOOLEAN :
               GetWinner(itembids', changes_tracker', dl)
                 = GetWinner(itembids, changes_tracker, dl)]_vars

\* get_winner() answered while the two items tie, where the winner depends on
\* the recency order alone
C24_Witness ==
    /\ result = "winner"
    /\ DOMAIN itembids = Items
    /\ \A i, j \in Items : ItemTotal(itembids, i) = ItemTotal(itembids, j)

\* ceil(x / y) of two naturals, y > 0, in exact arithmetic
ExactCeil(x, y) == (x + y - 1) \div y

\* the winning item's bidder of a money_owed entry: pledge and place in the
\* item's bidder order
PledgeOfEntry(w, i) == OdGet(itembids[w.item], w.money_owed[i].user)
PlaceOfEntry(w, i) == OdPos(itembids[w.item], w.money_owed[i].user)

(* C25: with the default policy money_owed lists the winning item's bidders
   by pledge descending, ties by the item's bidder order; each is given
   ceil(total_charge * amount / total_bid), and the first k of them, k = the
   sum of the ceilings minus total_charge, get 1 subtracted.  Hence of two
   bidders with equal pledges the earlier-updated one never owes more. *)
C25_AllotmentAlgorithm ==
    HasPledges =>
        LET w == Winner
            n == Len(w.money_owed)
            ceiling == [i \in 1..n |->
                          ExactCeil(w.total_charge * PledgeOfEntry(w, i), w.total_bid)]
            k == SumSeq(ceiling) - w.total_charge
        IN /\ n = Len(itembids[w.item])
           /\ {w.money_owed[i].user : i \in 1..n} = OdKeys(itembids[w.item])
           /\ \A i, j \in 1..n :
                i < j => \/ PledgeOfEntry(w, i) > PledgeOfEntry(w, j)
                         \/ /\ PledgeOfEntry(w, i) = PledgeOfEntry(w, j)
                            /\ PlaceOfEntry(w, i) < PlaceOfEntry(w, j)
           /\ \A i \in 1..n :
                w.money_owed[i].owed = ceiling[i] - (IF i <= k THEN 1 ELSE 0)
           /\ \A i, j \in 1..n :
                /\ PledgeOfEntry(w, i) = PledgeOfEntry(w, j)
                /\ PlaceOfEntry(w, i) < PlaceOfEntry(w, j)
                => w.money_owed[i].owed <= w.money_owed[j].owed

\* when the call changed the bidder's amount: the bidder is the last of the
\* item's bidder order, the others keep their relative order, and every
\* other bidder with the same pledge is visited for a discount before them
BidderMovedLast(o, user, item) ==
    o.out = "ok" =>
        LET od == o.itembids[item]
            owed == GetWinner(o.itembids, o.tracker, FALSE).money_owed
        IN /\ Last(od).user = user
           /\ OdDel(od, user) = OdDel(itembids[item], user)
           /\ GetWinner(o.itembids, o.tracker, FALSE).item = item =>
                \A x, y \in DOMAIN owed :
                    /\ owed[y].user = user
                    /\ x # y
                    /\ OdGet(od, owed[x].user) = OdGet(od, user)
                    => x < y

(* C26: a replace_bid or increase_bid that changes a bidder's amount moves
   that bidder to the last position of the item's bidder order while the
   other bidders keep their relative order; so a bidder who changed their
   pledge to equal the pledge of a bidder untouched since is discounted
   after that bidder. *)
C26_ChangeMovesBidderLast ==
    AfterGetWinner =>
    \A u \in Users, i \in Items :
        /\ \A a \in Amounts, allow \in BOOLEAN :
             BidderMovedLast(ReplaceOut(u, i, a, allow), u, i)
        /\ \A d \in Deltas : BidderMovedLast(IncreaseOut(u, i, d), u, i)

\* alice lowered her pledge to the pledge of bob, untouched since: the unit
\* charged is now owed by her, and bob gets the discount of the rounding
C26_Witness ==
    /\ result = "replace_bid"
    /\ itembids = [pepsiman |-> <<[user |-> "bob", amount |-> 1],
                                  [user |-> "alice", amount |-> 1]>>]
    /\ Winner.money_owed = <<[user |-> "bob", owed |-> 0],
                             [user |-> "alice", owed |-> 1]>>

\* amount[a] > amount[b] implies money_owed[a] >= money_owed[b] - slack
LargerOwesNoLess(w, slack) ==
    \A a, b \in DOMAIN w.money_owed :
        PledgeOfEntry(w, a) > PledgeOfEntry(w, b)
        => w.money_owed[a].owed >= w.money_owed[b].owed - slack

(* C27: in every winner result a bidder with a strictly larger pledge on the
   winning item is never charged less than a bidder with a strictly smaller
   pledge on it: amount[a] > amount[b] implies
   money_owed[a] >= money_owed[b]. *)
C27_LargerPledgeOwesNoLess ==
    HasPledges => \A w \in {Winner, WinnerLatter} : LargerOwesNoLess(w, 0)

(* C27 as the code has it: with the default policy the rounding discounts
   go to the largest pledges first, so a larger pledge can be charged one
   unit less than a smaller one, never more than one:
   money_owed[a] >= money_owed[b] - 1; with discount_latter = TRUE
   money_owed[a] >= money_owed[b]. *)
C27_LargerPledgeOwesAtMostOneLess ==
    HasPledges => /\ LargerOwesNoLess(Winner, 1)
                  /\ LargerOwesNoLess(WinnerLatter, 0)

\* the larger of two pledges got the discount and is charged one unit less
\* than the smaller one
C27_Witness ==
    /\ result = "winner"
    /\ \E a, b \in DOMAIN Winner.money_owed :
         /\ PledgeOfEntry(Winner, a) > PledgeOfEntry(Winner, b)
         /\ Winner.money_owed[a].owed = Winner.money_owed[b].owed - 1

\* overpaid of step 2: the sum of the ceiled shares get_winner computes in
\* step 1, minus total_charge
RoundingSurplus(w) ==
    LET ceiled == CeiledShares(SortedByAmountDesc(itembids[w.item]),
                               w.total_bid, w.total_charge)
    IN SumSeq([i \in DOMAIN ceiled |-> ceiled[i].owed]) - w.total_charge

(* C28: in every reachable state with a winner, the rounding surplus (the sum
   of the bidders' ceiled shares minus total_charge) is strictly smaller
   than the number of bidders on the winning item, so the single pass of
   discounts never runs out of bidders, for both discount orders. *)
C28_SurplusBelowBidders ==
    HasPledges =>
        \A w \in {Winner, WinnerLatter} :
            /\ 0 <= RoundingSurplus(w)
            /\ RoundingSurplus(w) < Len(itembids[w.item])

(* C29: every bidder's final charge is within one unit of their exact
   proportional share, strictly: for every bidder on the winning item
   total_charge*amount - total_bid < money_owed*total_bid
                                   < total_charge*amount + total_bid. *)
C29_StrictlyWithinOneOfShare ==
    HasPledges =>
        \A w \in {Winner, WinnerLatter} : \A i \in DOMAIN w.money_owed :
            /\ w.total_charge * PledgeOfEntry(w, i) - w.total_bid
                 < w.money_owed[i].owed * w.total_bid
            /\ w.money_owed[i].owed * w.total_bid
                 < w.total_charge * PledgeOfEntry(w, i) + w.total_bid

(* C29 as the code has it: the charge can be exactly one unit away from the
   exact share:
   total_charge*amount - total_bid <= money_owed*total_bid
                                   <= total_charge*amount + total_bid. *)
C29_WithinOneOfShare ==
    HasPledges =>
        \A w \in {Winner, WinnerLatter} : \A i \in DOMAIN w.money_owed :
            /\ w.total_charge * PledgeOfEntry(w, i) - w.total_bid
                 <= w.money_owed[i].owed * w.total_bid
            /\ w.money_owed[i].owed * w.total_bid
                 <= w.total_charge * PledgeOfEntry(w, i) + w.total_bid

\* three bidders, and one whose share is a whole number is charged one unit
\* less than it
C29_Witness ==
    /\ result = "winner"
    /\ Len(Winner.money_owed) = 3
    /\ \E i \in DOMAIN Winner.money_owed :
         (Winner.money_owed[i].owed + 1) * Winner.total_bid
           = Winner.total_charge * PledgeOfEntry(Winner, i)

(* C30: get_winner(discount_latter=True) reports the same item, total_bid
   and total_charge as the default call and lists the same bidders, largest
   pledge first and earliest-updated first on ties.  Both start from the
   same ceiled shares and take one unit off k of them, k the rounding
   surplus: the default call off the first k of that order, the call with
   discount_latter off the last k (the order reversed). *)
C30_DiscountLatterReverses ==
    HasPledges =>
        LET d == Winner
            l == WinnerLatter
            n == Len(d.money_owed)
            k == RoundingSurplus(d)
            ceiled == CeiledShares(SortedByAmountDesc(itembids[d.item]),
                                   d.total_bid, d.total_charge)
        IN /\ l.item = d.item
           /\ l.total_bid = d.total_bid
           /\ l.total_charge = d.total_charge
           /\ Len(l.money_owed) = n
           /\ \A i, j \in 1..n :
                i < j => \/ PledgeOfEntry(d, i) > PledgeOfEntry(d, j)
                         \/ /\ PledgeOfEntry(d, i) = PledgeOfEntry(d, j)
                            /\ PlaceOfEntry(d, i) < PlaceOfEntry(d, j)
           /\ \A i \in 1..n :
                /\ l.money_owed[i].user = d.money_owed[i].user
                /\ d.money_owed[i].owed = ceiled[i].owed - (IF i <= k THEN 1 ELSE 0)
                /\ l.money_owed[i].owed = ceiled[i].owed - (IF i > n - k THEN 1 ELSE 0)

\* three bidders and one unit of surplus: the default call discounts the
\* first of them, the call with discount_latter the last
C30_Witness ==
    /\ result = "winner"
    /\ Len(Winner.money_owed) = 3
    /\ RoundingSurplus(Winner) = 1
    /\ Winner.money_owed[1].owed + 1 = WinnerLatter.money_owed[1].owed
    /\ Winner.money_owed[3].owed = WinnerLatter.money_owed[3].owed + 1

----------------------------------------------------------------------------
(* C31: while the auction's reserved-money function is registered at the
   bank (once, however often register_reserved_money_checker was called) and
   the stored balances do not change, after any sequence of place, replace,
   increase, remove and clear calls no bidder's reserved money exceeds the
   bidder's balance. *)
C31_ReservedWithinBalance ==
    \A u \in Users :
        /\ BankGetReservedMoney(itembids, Bank, u) = GetReservedMoney(itembids, u)
        /\ BankGetReservedMoney(itembids, Bank, u) <= GetTotalMoney(Bank, u)

\* register_reserved_money_checker was called again while a bidder's whole
\* balance is reserved on two items
C31_Witness ==
    /\ result = "register"
    /\ \E u \in Users :
         /\ BankGetReservedMoney(itembids, Bank, u) = GetTotalMoney(Bank, u)
         /\ Cardinality(DOMAIN GetBidsForUser(itembids, u)) = 2

(* C32: clear() followed by any sequence of operations yields, after every
   step, the same get_all_bids(), get_all_bids_ordered() and get_winner()
   results as a freshly constructed auction running the same sequence:
   nothing that happened before clear() influences a later tie-break. *)
C32_ClearIsLikeFresh ==
    fresh.constructed =>
        /\ itembids = fresh.itembids
        /\ GetAllBidsOrdered(itembids, changes_tracker)
             = GetAllBidsOrdered(fresh.itembids, fresh.tracker)
        /\ \A dl \in BOOLEAN :
             GetWinner(itembids, changes_tracker, dl)
               = GetWinner(fresh.itembids, fresh.tracker, dl)

\* pepsiman was pledged on before clear() only and katamari after it:
\* get_winner() answered for both auctions alike, while the cleared
\* auction's tracker still names pepsiman, which the other one never saw
C32_Witness ==
    /\ fresh.constructed
    /\ result = "winner"
    /\ DOMAIN itembids = {"katamari"}
    /\ changes_tracker = <<"pepsiman", "katamari">>
    /\ fresh.tracker = <<"katamari">>

\* the write of the guarded replace_bid just made lowered the bidder's pledge
WroteLowering == pending.written /\ pending.amount < pending.previous_bid

\* the lowering just written did not fit the headroom of the winner as it
\* was right before the write
ExceededHeadroom ==
    \/ pending.before.item # pending.item
    \/ pending.previous_bid - pending.amount
         > pending.before.total_bid - pending.before.total_charge

\* the write changed what get_winner() shows: the winning item or total_charge
VisiblyChanged ==
    \/ Winner.item # pending.before.item
    \/ Winner.total_charge # pending.before.total_charge

(* C33: when every call runs to completion before the next begins, a guarded
   replace_bid that lowers a pledge is never applied in a state where it
   exceeds the headroom, and changes neither the winning item nor
   total_charge; only when another mutation ran between its headroom check
   and its write can that happen. *)
C33_SerializedLoweringFitsHeadroom ==
    WroteLowering /\ ~pending.raced => ~ExceededHeadroom /\ ~VisiblyChanged

\* another call changed the ledger between the check and the write: the
\* lowering was applied past the headroom and changed the winner or the price
C33_Witness ==
    /\ WroteLowering
    /\ pending.raced
    /\ ExceededHeadroom
    /\ VisiblyChanged

----------------------------------------------------------------------------
(* The older bidcatv2.Auction: C34 to C36, checked in SpecV2 *)

V2PlaceOut(u, i, a, add) ==
    V2PlaceBidOutcome(itembids, changes_tracker, Bank, u, i, a, add)

\* the user's bid on the item is in the ledger a call left, with the amount
V2StillBids(o, user, item, amount) ==
    /\ item \in DOMAIN o.itembids
    /\ user \in OdKeys(o.itembids[item])
    /\ OdGet(o.itembids[item], user) = amount

(* C34: in bidcatv2, place_bid(user, item, amount) with add=False, called
   when the user's bid on the item already equals amount, is a no-op:
   afterwards the bid is still present with the same amount. *)
C34_V2SameAmountIsNoOp ==
    \A u \in Users, i \in Items :
        HasBid(u, i) =>
            LET o == V2PlaceOut(u, i, PreviousBid(u, i), FALSE)
            IN /\ o.out = "no change"
               /\ V2StillBids(o, u, i, PreviousBid(u, i))

(* C35: in bidcatv2, a place_bid rejected with InsufficientMoneyError, with
   or without add=True, leaves the ledger unchanged: a bid the user already
   had on the item is still present with its previous amount. *)
C35_V2InsufficientMoneyChangesNothing ==
    \A u \in Users, i \in Items, a \in 1..(StartingAmount + 1), add \in BOOLEAN :
        LET o == V2PlaceOut(u, i, a, add)
        IN o.out = "InsufficientMoneyError" =>
              /\ o.itembids = itembids
              /\ o.tracker = changes_tracker
              /\ HasBid(u, i) => V2StillBids(o, u, i, PreviousBid(u, i))

(* C36: in bidcatv2, after any sequence of place_bid and remove_bid calls,
   rejected and fruitless ones included, get_all_bids() contains no item
   with an empty bid mapping, every item in it is in the change tracker, and
   get_winner() returns None or a winner result without failing. *)
C36_V2NoEmptyItemWinnerNeverFails ==
    /\ \A i \in DOMAIN itembids : itembids[i] # <<>>
    /\ DOMAIN itembids \subseteq Range(changes_tracker)
    /\ V2GetWinner(itembids, changes_tracker).item # "ValueError"
    /\ result # "ValueError in get_winner"

====
